---- MODULE Spec2Model ----
(***************************************************************************)
(* A model of the lxd client/daemon communication core:                    *)
(*   - the Operation record and its setters        (package lxd)           *)
(*   - the response envelope and its decoding      (client.go)             *)
(*   - the client's server-certificate pinning     (client.go)             *)
(*   - the daemon's client-certificate trust store (lxd daemon, trust)     *)
(* Text (error messages, JSON, answers typed by the operator) is a         *)
(* sequence of one-character strings.                                      *)
(***************************************************************************)
EXTENDS Integers, Sequences, FiniteSets, TLC

VARIABLES
    o,            \* the Operation record
    last,         \* the last call made on the Operation, with its argument
    now,          \* the wall clock read by time.Now()
    nSetResult,   \* how many times SetResult has been called
    resErr,       \* the error the last SetResult was called with
    body,         \* envelope decoding: the raw response body
    env,          \* envelope decoding: what ParseResponse returned
    perr,         \* envelope decoding: what ParseError returned
    phase,        \* envelope decoding: "raw", "parsed", "inspected"
    disk,         \* client: ~/.config/lxc/servercerts/<name>.crt
    c,            \* client: the Client object
    ret,          \* client: what the last client call did and returned
    clientCerts,  \* daemon: d.clientCerts, host -> certificate
    certFiles,    \* daemon: clientcerts/<host>.crt
    adminpwd,     \* daemon: the adminpwd file
    dret,         \* daemon: what the last trust request did and returned
    posted,       \* daemon: per host, the certificates its trust POSTs pinned, in order
    task,         \* daemon: where the task that runs the Operation's unit of work is
    chan,         \* daemon: the values in the Operation's Chan, and all it ever received
    waiter,       \* the create-then-wait protocol: the client's position and what it got
    reqs          \* daemon: the trust requests being handled, each at its position

opVars == <<o, last, now, nSetResult, resErr>>
envVars == <<body, env, perr, phase>>
clientVars == <<disk, c, ret>>
daemonVars == <<clientCerts, certFiles, adminpwd, dret, posted>>
sysVars == <<task, chan, waiter, reqs>>
vars == <<o, last, now, nSetResult, resErr, body, env, perr, phase, disk, c, ret,
          clientCerts, certFiles, adminpwd, dret, posted, task, chan, waiter, reqs>>

---------------------------------------------------------------------------
(* Bounds *)

MaxLen == 1
MaxTime == 2
MaxSetResult == 2
MaxPosts == 2
MaxReqs == 2

---------------------------------------------------------------------------
(* Text *)

Chars == {"a", "%", "\""}

Msgs == UNION {[1..n -> Chars] : n \in 0..MaxLen}

\* An error value: nil, an error with a fixed message of the code, or an
\* error whose message was computed.
Nil == [nil |-> TRUE, lit |-> "", text |-> <<>>]
ErrLit(s) == [nil |-> FALSE, lit |-> s, text |-> <<>>]
ErrText(t) == [nil |-> FALSE, lit |-> "", text |-> t]

NoVerb == <<"%", "!", "(", "N", "O", "V", "E", "R", "B", ")">>
MissingArg(verb) == <<"%", "!", verb, "(", "M", "I", "S", "S", "I", "N", "G", ")">>

\* fmt.Sprintf(format) with no operands, as fmt.Errorf(format) calls it:
\* "%%" prints "%", "%" and a verb prints %!verb(MISSING), a trailing "%"
\* prints %!(NOVERB), any other character prints itself.
RECURSIVE Sprintf(_)
Sprintf(format) ==
    IF format = <<>> THEN <<>>
    ELSE IF Head(format) # "%" THEN <<Head(format)>> \o Sprintf(Tail(format))
    ELSE IF Len(format) = 1 THEN NoVerb
    ELSE IF format[2] = "%" THEN <<"%">> \o Sprintf(SubSeq(format, 3, Len(format)))
    ELSE MissingArg(format[2]) \o Sprintf(SubSeq(format, 3, Len(format)))

Errorf(format) == ErrText(Sprintf(format))

\* encoding/json of a Go string: quoted, with the quote character escaped.
RECURSIVE JsonEscape(_)
JsonEscape(s) ==
    IF s = <<>> THEN <<>>
    ELSE (IF Head(s) = "\"" THEN <<"\\", "\"">> ELSE <<Head(s)>>) \o JsonEscape(Tail(s))

JsonMarshalString(s) == <<"\"">> \o JsonEscape(s) \o <<"\"">>

\* The characters between the quotes of a JSON string, decoded: a backslash
\* escapes the character after it, a bare quote cannot occur.
RECURSIVE JsonUnescape(_)
JsonUnescape(s) ==
    IF s = <<>> THEN [ok |-> TRUE, s |-> <<>>]
    ELSE IF Head(s) = "\"" THEN [ok |-> FALSE, s |-> <<>>]
    ELSE IF Head(s) = "\\"
    THEN IF Len(s) < 2 \/ s[2] \notin {"\"", "\\"}
         THEN [ok |-> FALSE, s |-> <<>>]
         ELSE LET rest == JsonUnescape(SubSeq(s, 3, Len(s)))
              IN [ok |-> rest.ok, s |-> IF rest.ok THEN <<s[2]>> \o rest.s ELSE <<>>]
    ELSE LET rest == JsonUnescape(Tail(s))
         IN [ok |-> rest.ok, s |-> IF rest.ok THEN <<Head(s)>> \o rest.s ELSE <<>>]

\* json.Unmarshal of raw JSON into a Go string: the text of a JSON string,
\* the string untouched for null, or an error for anything else (no bytes at
\* all, an object, a number).
JsonUnmarshalString(raw) ==
    IF raw = <<"n", "u", "l", "l">> THEN [s |-> <<>>, err |-> Nil]
    ELSE IF Len(raw) < 2 \/ raw[1] # "\"" \/ raw[Len(raw)] # "\""
    THEN [s |-> <<>>, err |-> ErrLit("json: cannot unmarshal into string")]
    ELSE LET inner == JsonUnescape(SubSeq(raw, 2, Len(raw) - 1))
         IN IF inner.ok THEN [s |-> inner.s, err |-> Nil]
            ELSE [s |-> <<>>, err |-> ErrLit("json: cannot unmarshal into string")]

---------------------------------------------------------------------------
(* Operation *)

Pending == "pending"
Running == "running"
Done == "done"
Cancelling == "cancelling"
Cancelled == "cancelled"

OperationStatus == {Pending, Running, Done, Cancelling, Cancelled}

StatusCodes ==
    [s \in OperationStatus |->
        CASE s = Pending -> 0
          [] s = Running -> 1
          [] s = Done -> 2
          [] s = Cancelling -> 3
          [] s = Cancelled -> 4]

Success == "success"
Failure == "failure"

ResultCodes == [r \in {Failure, Success} |-> IF r = Failure THEN 0 ELSE 1]

\* Metadata is nil until something is written to it.
NoMetadata == <<"n", "i", "l">>

\* The zero Operation, as Operation{} is before anything is decoded into it.
NoOperation ==
    [CreatedAt |-> 0, UpdatedAt |-> 0, Status |-> "", StatusCode |-> 0,
     Result |-> "", ResultCode |-> 0, ResourceURL |-> "",
     Metadata |-> NoMetadata, MayCancel |-> FALSE]

\* An Operation as the daemon creates it: Pending, no result yet, MayCancel
\* set when the action has a cancel hook.
NewOperation(mayCancel, t) ==
    [CreatedAt |-> t, UpdatedAt |-> t, Status |-> Pending, StatusCode |-> 0,
     Result |-> "", ResultCode |-> 0, ResourceURL |-> "/1.0/containers/web1",
     Metadata |-> NoMetadata, MayCancel |-> mayCancel]

\* SetStatus as it would be if it left the numeric code alone.
SetStatus_Op_StaleCode(op, status, t) ==
    [op EXCEPT !.Status = status,
               !.UpdatedAt = t,
               !.MayCancel = IF status \in {Done, Cancelling, Cancelled}
                             THEN FALSE ELSE @]

\* SetStatus as it would be if only Done cleared MayCancel.
SetStatus_Op_DoneOnly(op, status, t) ==
    [op EXCEPT !.Status = status,
               !.StatusCode = StatusCodes[status],
               !.UpdatedAt = t,
               !.MayCancel = IF status = Done THEN FALSE ELSE @]

SetStatus_Op(op, status, t) ==
    [op EXCEPT !.Status = status,
               !.StatusCode = StatusCodes[status],
               !.UpdatedAt = t,
               !.MayCancel = IF status \in {Done, Cancelling, Cancelled}
                             THEN FALSE ELSE @]

\* SetResult as it would be if it also completed the operation.
SetResult_Op_Done(op, err, t) ==
    IF err.nil
    THEN [op EXCEPT !.Result = Success,
                    !.ResultCode = ResultCodes[Success],
                    !.Status = Done,
                    !.MayCancel = FALSE,
                    !.UpdatedAt = t]
    ELSE [op EXCEPT !.Result = Failure,
                    !.ResultCode = ResultCodes[Failure],
                    !.Metadata = JsonMarshalString(err.text),
                    !.Status = Done,
                    !.MayCancel = FALSE,
                    !.UpdatedAt = t]

\* SetResult as it would be if it stored the error text as it is.
SetResult_Op_Raw(op, err, t) ==
    IF err.nil
    THEN [op EXCEPT !.Result = Success,
                    !.ResultCode = ResultCodes[Success],
                    !.UpdatedAt = t]
    ELSE [op EXCEPT !.Result = Failure,
                    !.ResultCode = ResultCodes[Failure],
                    !.Metadata = err.text,
                    !.UpdatedAt = t]

SetResult_Op(op, err, t) ==
    IF err.nil
    THEN [op EXCEPT !.Result = Success,
                    !.ResultCode = ResultCodes[Success],
                    !.UpdatedAt = t]
    ELSE [op EXCEPT !.Result = Failure,
                    !.ResultCode = ResultCodes[Failure],
                    !.Metadata = JsonMarshalString(err.text),
                    !.UpdatedAt = t]

GetError_Op(op) ==
    IF op.Result = Failure
    THEN LET s == JsonUnmarshalString(op.Metadata)
         IN IF ~s.err.nil THEN s.err ELSE Errorf(s.s)
    ELSE Nil

\* The errors a unit of work can return.
RunErrors == {Nil} \cup {ErrText(m) : m \in Msgs}

SetStatus(status) ==
    /\ o' = SetStatus_Op(o, status, now)
    /\ last' = [op |-> "SetStatus", status |-> status, err |-> Nil]
    /\ UNCHANGED <<now, nSetResult, resErr>>
    /\ UNCHANGED <<envVars, clientVars, daemonVars, sysVars>>

SetResult(err) ==
    /\ nSetResult < MaxSetResult
    /\ o' = SetResult_Op(o, err, now)
    /\ last' = [op |-> "SetResult", status |-> o.Status, err |-> err]
    /\ nSetResult' = nSetResult + 1
    /\ resErr' = err
    /\ UNCHANGED now
    /\ UNCHANGED <<envVars, clientVars, daemonVars, sysVars>>

\* Time passes between calls.
Tick ==
    /\ now < MaxTime
    /\ now' = now + 1
    /\ UNCHANGED <<o, last, nSetResult, resErr>>
    /\ UNCHANGED <<envVars, clientVars, daemonVars, sysVars>>

\* GetError is called on the Operation; last.err is what it returned.
GetError ==
    /\ last' = [op |-> "GetError", status |-> o.Status, err |-> GetError_Op(o)]
    /\ UNCHANGED <<o, now, nSetResult, resErr>>
    /\ UNCHANGED <<envVars, clientVars, daemonVars, sysVars>>

---------------------------------------------------------------------------
(* Envelope *)

Sync == "sync"
Async == "async"
Error == "error"

\* A member of a JSON object: present with a value, or absent.
Absent(zero) == [set |-> FALSE, v |-> zero]
Present(x) == [set |-> TRUE, v |-> x]
Opt(S, zero) == {Absent(zero)} \cup {Present(x) : x \in S}

OperationRef == "/1.0/operations/1"
MetaFinger == "{\"api_compat\":1,\"auth\":\"trusted\"}"
MetaOther == "{\"api_compat\":0}"
MetaOperation == "{\"status\":...,\"result\":...,\"metadata\":...}"
MetaList == "[\"web1\",\"db1\"]"

\* The bodies a response can carry: one that cannot be read to its end, one
\* that is not JSON, and JSON objects with any choice of the envelope's
\* members present; typed is FALSE when a member holds a value of another
\* JSON type than the field it is decoded into.
ObjectBodies(types, refs, msgs, metas) ==
    [kind : {"object"}, typed : BOOLEAN,
     type : Opt(types, ""),
     result : Opt({Success}, ""),
     operation : Opt(refs, ""),
     error_code : Opt({400}, 0),
     error : Opt(msgs, <<>>),
     metadata : Opt(metas, "")]

NoObject(kind) ==
    [kind |-> kind, typed |-> FALSE, type |-> Absent(""), result |-> Absent(""),
     operation |-> Absent(""), error_code |-> Absent(0), error |-> Absent(<<>>),
     metadata |-> Absent("")]

Unreadable == NoObject("unreadable")
Garbage == NoObject("garbage")

RawBodies ==
    {Unreadable, Garbage}
        \cup ObjectBodies({Sync, Async, Error, "bogus"}, {OperationRef}, Msgs, {MetaFinger})

\* The zero Response.
NoResponse ==
    [Type |-> "", Result |-> "", Operation |-> "", Code |-> 0, Error |-> <<>>,
     Metadata |-> ""]

\* json.Unmarshal into a Response: a member that is present sets its field,
\* every other field keeps its zero value; nothing relates Type to the
\* fields that are set.
Unmarshal(b) ==
    [Type |-> IF b.type.set THEN b.type.v ELSE "",
     Result |-> IF b.result.set THEN b.result.v ELSE "",
     Operation |-> IF b.operation.set THEN b.operation.v ELSE "",
     Code |-> IF b.error_code.set THEN b.error_code.v ELSE 0,
     Error |-> IF b.error.set THEN b.error.v ELSE <<>>,
     Metadata |-> IF b.metadata.set THEN b.metadata.v ELSE ""]

ParseResponse(b) ==
    IF b.kind = "unreadable"
    THEN [resp |-> NoResponse, err |-> ErrLit("unexpected EOF")]
    ELSE IF b.kind = "garbage"
    THEN [resp |-> NoResponse, err |-> ErrLit("invalid character")]
    ELSE IF ~b.typed
    THEN [resp |-> NoResponse, err |-> ErrLit("json: cannot unmarshal")]
    ELSE [resp |-> Unmarshal(b), err |-> Nil]

ParseError(r) == IF r.Type = Error THEN Errorf(r.Error) ELSE Nil

NotParsed == [resp |-> NoResponse, err |-> Nil]

DoParseResponse ==
    /\ phase = "raw"
    /\ env' = ParseResponse(body)
    /\ phase' = "parsed"
    /\ UNCHANGED <<body, perr>>
    /\ UNCHANGED <<opVars, clientVars, daemonVars, sysVars>>

\* The caller inspects the envelope it decoded.
DoParseError ==
    /\ phase = "parsed"
    /\ env.err.nil
    /\ perr' = ParseError(env.resp)
    /\ phase' = "inspected"
    /\ UNCHANGED <<body, env>>
    /\ UNCHANGED <<opVars, clientVars, daemonVars, sysVars>>

---------------------------------------------------------------------------
(* Certificates *)

\* The DER encodings of two certificates.
DER == {"certA", "certB"}

NilCert == [nil |-> TRUE, Raw |-> ""]
Certificate(raw) == [nil |-> FALSE, Raw |-> raw]

\* x509.ParseCertificate: a certificate whose Raw is the bytes parsed, or an
\* error for bytes that are no certificate.
ParseCertificate(bytes) ==
    IF bytes \in DER
    THEN [cert |-> Certificate(bytes), err |-> Nil]
    ELSE [cert |-> NilCert, err |-> ErrLit("asn1: syntax error")]

\* A file: absent, or present with the PEM blocks written to it.
NoFile == [exists |-> FALSE, blocks |-> <<>>]
File(blocks) == [exists |-> TRUE, blocks |-> blocks]

PemEncode(raw) == <<[Type |-> "CERTIFICATE", Bytes |-> raw]>>

Sum256(raw) == <<"sha256", raw>>
ZeroDigest == <<"zero", "">>

---------------------------------------------------------------------------
(* Client *)

NoClient ==
    [live |-> FALSE, tls |-> FALSE, scert |-> NilCert, scertWire |-> NilCert,
     scertDigest |-> ZeroDigest, scertDigestSet |-> FALSE]

\* What a connection attempt meets: a refusal, or a daemon presenting one of
\* the certificates (a local socket presents none, whatever the daemon holds).
Refused == "refused"
Conns == {Refused} \cup DER

\* The error texts and the bodies the client model draws: a body that
\* cannot be read, one that is not JSON, envelopes of every kind with any
\* metadata, and error envelopes with each error text.
ClientMsgs == {<<>>, <<"a">>, <<"%">>}

ClientBodies ==
    {Unreadable, Garbage}
        \cup {b \in ObjectBodies({Sync, Async, Error, "bogus"}, {OperationRef}, ClientMsgs,
                                 {MetaFinger, MetaOther, MetaOperation, MetaList}) :
                /\ b.typed /\ ~b.result.set /\ ~b.error_code.set /\ ~b.operation.set
                /\ b.error.set => (b.type = Present(Error) /\ ~b.metadata.set)}

\* An input that a call never reads is drawn from one value: the body of a
\* connection that was refused, the metadata of an envelope whose metadata
\* the call does not decode, the certificate of a peer on the local socket.
ConnsIf(reads) == IF reads THEN Conns ELSE {Refused, "certA"}
BodiesIf(reads) == IF reads THEN ClientBodies ELSE {Garbage}
EnvelopesIf(reads) ==
    IF reads THEN {b \in ClientBodies : ~b.metadata.set} ELSE {Garbage}

\* What the file system does to a call that reads or writes the store of
\* server certificates.
FsLoad == {"ok", "nohome", "mkdirfail"}
FsStore == {"ok", "nohome", "mkdirfail", "createfail", "writefail"}

\* loadServerCert: the certificate read from disk into c.scert, or c as it
\* was; a file with no PEM block in it makes cert_block nil, and the read of
\* cert_block.Bytes panics.
loadServerCert(cl, fs, file) ==
    IF fs # "ok" \/ ~file.exists
    THEN [c |-> cl, panic |-> FALSE]
    ELSE IF file.blocks = <<>>
    THEN [c |-> cl, panic |-> TRUE]
    ELSE LET parsed == ParseCertificate(Head(file.blocks).Bytes)
         IN IF ~parsed.err.nil
            THEN [c |-> cl, panic |-> FALSE]
            ELSE [c |-> [cl EXCEPT !.scert = parsed.cert], panic |-> FALSE]

\* What a request helper hands back: the client as it leaves it, the decoded
\* response (hasResp) or an error, whether the peer certificate was compared
\* with the pinned one, and whether the body was decoded.
Reply(cl, resp, hasResp, err, compared, decoded) ==
    [c |-> cl, resp |-> resp, hasResp |-> hasResp, err |-> err,
     compared |-> compared, decoded |-> decoded]

Decoded(cl, b, compared) ==
    LET pr == ParseResponse(b)
    IN Reply(cl, pr.resp, pr.err.nil, pr.err, compared, TRUE)

\* get with the wire certificate captured from every TLS response and the
\* digest from the first one only.
get_Recapture(cl, conn, b) ==
    IF conn = Refused
    THEN Reply(cl, NoResponse, FALSE, ErrLit("connection refused"), FALSE, FALSE)
    ELSE IF ~cl.scert.nil /\ cl.tls /\ conn # cl.scert.Raw
    THEN Reply(cl, NoResponse, FALSE, ErrLit("Server certificate has changed"),
               TRUE, FALSE)
    ELSE LET c0 == IF cl.tls THEN [cl EXCEPT !.scertWire = Certificate(conn)] ELSE cl
             c1 == IF ~cl.scertDigestSet /\ cl.tls
                   THEN [c0 EXCEPT !.scertDigest = Sum256(conn),
                                   !.scertDigestSet = TRUE]
                   ELSE c0
         IN Decoded(c1, b, ~cl.scert.nil /\ cl.tls)

get(cl, conn, b) ==
    IF conn = Refused
    THEN Reply(cl, NoResponse, FALSE, ErrLit("connection refused"), FALSE, FALSE)
    ELSE IF ~cl.scert.nil /\ cl.tls /\ conn # cl.scert.Raw
    THEN Reply(cl, NoResponse, FALSE, ErrLit("Server certificate has changed"),
               TRUE, FALSE)
    ELSE LET c1 == IF ~cl.scertDigestSet /\ cl.tls
                   THEN [cl EXCEPT !.scertWire = Certificate(conn),
                                   !.scertDigest = Sum256(conn),
                                   !.scertDigestSet = TRUE]
                   ELSE cl
         IN Decoded(c1, b, ~cl.scert.nil /\ cl.tls)

\* put, post, delete_ and the requests PushFile, PullFile and WaitFor build
\* themselves send the request and decode what comes back.
send(cl, conn, b) ==
    IF conn = Refused
    THEN Reply(cl, NoResponse, FALSE, ErrLit("connection refused"), FALSE, FALSE)
    ELSE Decoded(cl, b, FALSE)

put(cl, conn, b) == send(cl, conn, b)
post(cl, conn, b) == send(cl, conn, b)
delete_(cl, conn, b) == send(cl, conn, b)

\* MetadataAsMap and the members read from the map.
MetadataAsMap(r) ==
    IF r.Metadata \in {MetaFinger, MetaOther}
    THEN [err |-> Nil,
          api_compat_matches |-> r.Metadata = MetaFinger,
          auth |-> IF r.Metadata = MetaFinger THEN "trusted" ELSE ""]
    ELSE [err |-> ErrLit("json: cannot unmarshal into Jmap"),
          api_compat_matches |-> FALSE, auth |-> ""]

\* What a call of the client leaves in ret.
Ret(fn, verb, cl, conn, r, err, out) ==
    [fn |-> fn, verb |-> verb, conn |-> conn, tls |-> cl.tls,
     pinned |-> cl.scert, compared |-> r.compared, decoded |-> r.decoded,
     type |-> IF r.hasResp THEN r.resp.Type ELSE "",
     err |-> err, out |-> out, answer |-> <<>>, panic |-> FALSE,
     status |-> 0, op |-> NoOperation]

NoRet ==
    [fn |-> "", verb |-> "", conn |-> Refused, tls |-> FALSE, pinned |-> NilCert,
     compared |-> FALSE, decoded |-> FALSE, type |-> "", err |-> Nil,
     out |-> "", answer |-> <<>>, panic |-> FALSE, status |-> 0, op |-> NoOperation]

Finger_Err(r) ==
    IF ~r.err.nil THEN r.err
    ELSE LET jmap == MetadataAsMap(r.resp)
         IN IF ~jmap.err.nil THEN jmap.err
            ELSE IF ~jmap.api_compat_matches THEN ErrLit("api version mismatch")
            ELSE Nil


\* The error of a call that reads the envelope's error and nothing else.
Plain_Err(r) == IF ~r.err.nil THEN r.err ELSE ParseError(r.resp)

\* The error of a call that then requires an envelope of one kind.
Typed_Err(r, kind, msg) ==
    IF ~r.err.nil THEN r.err
    ELSE IF ~ParseError(r.resp).nil THEN ParseError(r.resp)
    ELSE IF r.resp.Type # kind THEN ErrLit(msg)
    ELSE Nil

ListContainers_Err(r) ==
    IF ~Typed_Err(r, Sync, "bad response type from list!").nil
    THEN Typed_Err(r, Sync, "bad response type from list!")
    ELSE IF r.resp.Metadata # MetaList THEN ErrLit("json: cannot unmarshal into []string")
    ELSE Nil

Create_Err(r) == Typed_Err(r, Async, "Non-async response from create!")

Action_Err(r) == Plain_Err(r)

Delete_Err(r) == Typed_Err(r, Async, "got non-async response from delete!")

ContainerStatus_Err(r) ==
    IF ~Typed_Err(r, Sync, "got non-sync response from containers get!").nil
    THEN Typed_Err(r, Sync, "got non-sync response from containers get!")
    ELSE IF r.resp.Metadata \notin {MetaFinger, MetaOther, MetaOperation}
    THEN ErrLit("json: cannot unmarshal into Container")
    ELSE Nil

Snapshot_Err(r) == Typed_Err(r, Async, "Non-async response from snapshot!")

PushFile_Err(r) == Plain_Err(r)

\* MetadataAsOperation decodes any JSON object.
WaitFor_Err(r) ==
    IF ~Plain_Err(r).nil THEN Plain_Err(r)
    ELSE IF r.resp.Metadata \notin {MetaFinger, MetaOther, MetaOperation}
    THEN ErrLit("json: cannot unmarshal into Operation")
    ELSE Nil

Out(err, value) == IF err.nil THEN value ELSE ""

ClientStep(cl, r) ==
    /\ c' = cl
    /\ ret' = r
    /\ UNCHANGED disk
    /\ UNCHANGED <<opVars, envVars, daemonVars, sysVars>>

NewClient(keypair, remote, fs, conn, b) ==
    IF ~keypair
    THEN ClientStep(NoClient, [NoRet EXCEPT !.fn = "NewClient",
                                            !.err = ErrLit("no client certificate")])
    ELSE IF remote = "unknown"
    THEN ClientStep(NoClient, [NoRet EXCEPT !.fn = "NewClient",
                                            !.err = ErrLit("unknown remote name")])
    ELSE LET c0 == [NoClient EXCEPT !.live = TRUE, !.tls = (remote = "known")]
             ld == IF remote = "known" THEN loadServerCert(c0, fs, disk)
                   ELSE [c |-> c0, panic |-> FALSE]
             r == get(ld.c, conn, b)
         IN IF ld.panic
            THEN ClientStep(NoClient, [NoRet EXCEPT !.fn = "NewClient", !.tls = TRUE,
                                                    !.panic = TRUE])
            ELSE ClientStep(IF Finger_Err(r).nil THEN r.c ELSE NoClient,
                            Ret("NewClient", "get", ld.c, conn, r, Finger_Err(r), ""))

ListContainers(conn, b) ==
    /\ c.live
    /\ LET r == get(c, conn, b)
       IN ClientStep(r.c, Ret("ListContainers", "get", c, conn, r, ListContainers_Err(r),
                              Out(ListContainers_Err(r), "names")))

ContainerStatus(conn, b) ==
    /\ c.live
    /\ LET r == get(c, conn, b)
       IN ClientStep(r.c, Ret("ContainerStatus", "get", c, conn, r,
                              ContainerStatus_Err(r),
                              Out(ContainerStatus_Err(r), "container")))

Create(conn, b) ==
    /\ c.live
    /\ LET r == post(c, conn, b)
       IN ClientStep(r.c, Ret("Create", "post", c, conn, r, Create_Err(r),
                              Out(Create_Err(r), "resp")))

Action(conn, b) ==
    /\ c.live
    /\ LET r == put(c, conn, b)
       IN ClientStep(r.c, Ret("Action", "put", c, conn, r, Action_Err(r),
                              Out(Action_Err(r), "resp")))

Delete(conn, b) ==
    /\ c.live
    /\ LET r == delete_(c, conn, b)
       IN ClientStep(r.c, Ret("Delete", "delete_", c, conn, r, Delete_Err(r),
                              Out(Delete_Err(r), "resp")))

Snapshot(conn, b) ==
    /\ c.live
    /\ LET r == post(c, conn, b)
       IN ClientStep(r.c, Ret("Snapshot", "post", c, conn, r, Snapshot_Err(r),
                              Out(Snapshot_Err(r), "resp")))

PushFile(conn, b) ==
    /\ c.live
    /\ LET r == send(c, conn, b)
       IN ClientStep(r.c, Ret("PushFile", "PushFile", c, conn, r, PushFile_Err(r), ""))

\* PullFile: a status other than 200 is answered by the decoded envelope's
\* error, 200 by the headers and the body as a stream.
PullFile(conn, status, headersOk, b) ==
    /\ c.live
    /\ LET r == IF conn # Refused /\ status = 200
                THEN Reply(c, NoResponse, FALSE,
                           IF headersOk THEN Nil ELSE ErrLit("bad X-LXD headers"),
                           FALSE, FALSE)
                ELSE send(c, conn, b)
           err == IF conn # Refused /\ status = 200 THEN r.err ELSE Plain_Err(r)
       IN ClientStep(r.c, [Ret("PullFile", "PullFile", c, conn, r, err,
                               IF conn # Refused /\ status = 200 /\ headersOk
                               THEN "stream" ELSE "")
                           EXCEPT !.status = IF conn # Refused THEN status ELSE 0])

WaitFor(conn, b) ==
    /\ c.live
    /\ LET r == send(c, conn, b)
       IN ClientStep(r.c, Ret("WaitFor", "WaitFor", c, conn, r, WaitFor_Err(r),
                              Out(WaitFor_Err(r), "operation")))

\* The Operations a wait response's metadata can hold: any status with any
\* result, and with a failure metadata that is null, a JSON string or
\* another JSON value.
JsonNull == <<"n", "u", "l", "l">>
WireMetadata == {JsonNull, JsonMarshalString(<<"a">>), JsonMarshalString(<<"%">>), <<"{", "}">>}

WireOps ==
    {[NoOperation EXCEPT !.Status = status, !.StatusCode = StatusCodes[status],
                         !.Result = result,
                         !.ResultCode = IF result = Success THEN 1 ELSE 0,
                         !.Metadata = metadata] :
        status \in OperationStatus,
        result \in {"", Success, Failure},
        metadata \in WireMetadata}

\* MetadataAsOperation as it would be if no member of the JSON object
\* reached the Operation's fields.
MetadataAsOperation_Zero(r, payload) ==
    IF r.Metadata \in {MetaOperation, MetaFinger, MetaOther}
    THEN [op |-> NoOperation, err |-> Nil]
    ELSE [op |-> NoOperation, err |-> ErrLit("json: cannot unmarshal into Operation")]

\* MetadataAsOperation: a JSON object decodes into an Operation, the members
\* it lacks keeping their zero values; payload is what an Operation's JSON
\* object holds.
MetadataAsOperation(r, payload) ==
    IF r.Metadata = MetaOperation THEN [op |-> payload, err |-> Nil]
    ELSE IF r.Metadata \in {MetaFinger, MetaOther} THEN [op |-> NoOperation, err |-> Nil]
    ELSE [op |-> NoOperation, err |-> ErrLit("json: cannot unmarshal into Operation")]

\* What WaitFor returns: the Operation (hasOp) or an error.
WaitFor_Ret(r, payload) ==
    IF ~Plain_Err(r).nil
    THEN [hasOp |-> FALSE, op |-> NoOperation, err |-> Plain_Err(r)]
    ELSE LET m == MetadataAsOperation(r.resp, payload)
         IN [hasOp |-> m.err.nil, op |-> m.op, err |-> m.err]

WaitForSuccess_Err(r, payload) ==
    LET w == WaitFor_Ret(r, payload)
    IN IF ~w.err.nil THEN w.err
       ELSE IF w.op.Result = Success THEN Nil
       ELSE GetError_Op(w.op)

\* WaitForSuccess: ret.op is the Operation its WaitFor call returned, ret.out
\* tells whether there was one.
WaitForSuccess(conn, b, payload) ==
    /\ c.live
    /\ LET r == send(c, conn, b)
           w == WaitFor_Ret(r, payload)
       IN ClientStep(r.c, [Ret("WaitForSuccess", "WaitFor", c, conn, r,
                               WaitForSuccess_Err(r, payload),
                               IF w.hasOp THEN "operation" ELSE "")
                           EXCEPT !.op = w.op])

\* What the operator types at the "ok (y/n)?" prompt.
AnswerChars == {"y", "Y", "n"}
Lines == UNION {[1..n -> AnswerChars] : n \in 0..MaxLen}

\* UserAuthServerCert's outcome: an error, a panic (line[0] of an empty
\* line), or nil with the file created; a write that fails after the file
\* was created is not reported.
UserAuthServerCert_Err(cl, readOk, line, fs) ==
    IF ~cl.scertDigestSet THEN ErrLit("No certificate on this connection")
    ELSE IF ~readOk THEN ErrLit("EOF")
    ELSE IF line = <<>> THEN Nil
    ELSE IF line[1] # "y" /\ line[1] # "Y" THEN ErrLit("Server certificate NACKed by user")
    ELSE IF fs = "nohome" THEN ErrLit("Could not find homedir")
    ELSE IF fs = "mkdirfail" THEN ErrLit("Could not create server cert dir")
    ELSE IF fs = "createfail" THEN ErrLit("open: permission denied")
    ELSE Nil

UserAuthServerCert_Panics(cl, readOk, line) ==
    cl.scertDigestSet /\ readOk /\ line = <<>>

UserAuthServerCert(readOk, line, fs) ==
    /\ c.live
    /\ LET err == UserAuthServerCert_Err(c, readOk, line, fs)
           panics == UserAuthServerCert_Panics(c, readOk, line)
       IN /\ ret' = [NoRet EXCEPT !.fn = "UserAuthServerCert", !.tls = c.tls,
                                  !.pinned = c.scert, !.err = err, !.panic = panics,
                                  !.out = IF readOk /\ c.scertDigestSet
                                          THEN "asked" ELSE "",
                                  !.answer = IF readOk /\ c.scertDigestSet
                                             THEN line ELSE <<>>]
          /\ disk' = IF ~err.nil \/ panics THEN disk
                     ELSE IF fs = "writefail" THEN File(<<>>)
                     ELSE File(PemEncode(c.scertWire.Raw))
    /\ UNCHANGED c
    /\ UNCHANGED <<opVars, envVars, daemonVars, sysVars>>

---------------------------------------------------------------------------
(* Daemon: the trust store *)

Hosts == {"h1", "h2"}
Passwords == {"secret", "guess"}

\* The adminpwd file: absent, or a salt followed by the derived key.
Scrypt(password, salt) == <<"scrypt", password, salt>>
NoPwd == [exists |-> FALSE, salt |-> "", hash |-> <<>>]
PwdFile(password) == [exists |-> TRUE, salt |-> "salt", hash |-> Scrypt(password, "salt")]

hasPwd(pwfile) == pwfile.exists

verifyAdminPwd(pwfile, readOk, password) ==
    IF ~pwfile.exists THEN FALSE
    ELSE IF ~readOk THEN FALSE
    ELSE Scrypt(password, pwfile.salt) = pwfile.hash

\* lxd.GenerateFingerprint: the SHA-256 digest of the certificate's DER
\* encoding, rendered as text.
GenerateFingerprint(cert) == <<"fingerprint", Sum256(cert.Raw)>>

\* base64.StdEncoding: text that decodes to the bytes it encodes; other
\* text does not decode.
EncodeToString(bytes) == <<"base64", bytes>>
DecodeString(text) ==
    IF Len(text) = 2 /\ text[1] = "base64"
    THEN [bytes |-> text[2], err |-> Nil]
    ELSE [bytes |-> "", err |-> ErrLit("illegal base64 data")]

\* The certificate member of a trust POST: empty, a certificate, bytes that
\* are no certificate, or text that is not base64.
CertificateTexts ==
    {<<>>, <<"!">>} \cup {EncodeToString(bytes) : bytes \in DER \cup {"junk"}}

\* The TLS state of a request: none on the local socket, or the server name
\* the client asked for and the chain of certificates it presented.
NoTLS == [tls |-> FALSE, ServerName |-> "", PeerCertificates |-> <<>>]
TLSStates ==
    {NoTLS} \cup [tls : {TRUE}, ServerName : Hosts,
                  PeerCertificates : {<<"certA">>, <<"certB">>, <<"certB", "certA">>}]

FsSave == {"ok", "openfail", "writefail"}

\* saveCert: the file as it leaves it, and its error.
saveCert(files, host, cert, fs) ==
    IF fs = "openfail"
    THEN [files |-> files, err |-> ErrLit("open: permission denied")]
    ELSE IF fs = "writefail"
    THEN [files |-> [files EXCEPT ![host] = File(<<>>)], err |-> ErrLit("write: no space")]
    ELSE [files |-> [files EXCEPT ![host] = File(PemEncode(cert.Raw))], err |-> Nil]

\* The store as it would be if a POST replaced the map by its one entry.
trustPost_Store_Only(certs, host, cert) == [h \in {host} |-> cert]

\* d.clientCerts[host] = *cert
trustPost_Store(certs, host, cert) ==
    [h \in DOMAIN certs \cup {host} |-> IF h = host THEN cert ELSE certs[h]]

\* The certificate a trust POST is about: the one in the body, or the last of
\* the peer's chain; status is "" when there is one.
trustPost_Cert(readOk, req, tls) ==
    IF ~readOk THEN [status |-> "badrequest", cert |-> NilCert]
    ELSE IF req.Certificate # <<>>
    THEN IF ~DecodeString(req.Certificate).err.nil
         THEN [status |-> "badrequest", cert |-> NilCert]
         ELSE IF ~ParseCertificate(DecodeString(req.Certificate).bytes).err.nil
         THEN [status |-> "badrequest", cert |-> NilCert]
         ELSE [status |-> IF tls.tls THEN "" ELSE "panic",
               cert |-> ParseCertificate(DecodeString(req.Certificate).bytes).cert]
    ELSE IF ~tls.tls THEN [status |-> "panic", cert |-> NilCert]
    ELSE [status |-> "",
          cert |-> Certificate(tls.PeerCertificates[Len(tls.PeerCertificates)])]

DRet(fn, status, password, out) ==
    [fn |-> fn, status |-> status, password |-> password, body |-> out]

NoReq == [Type |-> "", Certificate |-> <<>>, Password |-> ""]

\* trustPost with the certificate put in the map before it is saved.
trustPost_StoreFirst(readOk, req, tls, fs) ==
    /\ tls.tls => Len(posted[tls.ServerName]) < MaxPosts
    /\ LET got == trustPost_Cert(readOk, req, tls)
           saved == saveCert(certFiles, tls.ServerName, got.cert, fs)
           status == IF got.status # "" THEN got.status
                     ELSE IF ~saved.err.nil THEN "internalerror"
                     ELSE "sync"
       IN /\ certFiles' = IF got.status = "" THEN saved.files ELSE certFiles
          /\ clientCerts' = IF got.status = ""
                            THEN trustPost_Store(clientCerts, tls.ServerName, got.cert)
                            ELSE clientCerts
          /\ posted' = IF status = "sync"
                       THEN [posted EXCEPT ![tls.ServerName] = Append(@, got.cert.Raw)]
                       ELSE posted
          /\ dret' = DRet("trustPost", status, req.Password, {})
    /\ UNCHANGED adminpwd
    /\ UNCHANGED <<opVars, envVars, clientVars, sysVars>>

trustPost(readOk, req, tls, fs) ==
    /\ tls.tls => Len(posted[tls.ServerName]) < MaxPosts
    /\ LET got == trustPost_Cert(readOk, req, tls)
           saved == saveCert(certFiles, tls.ServerName, got.cert, fs)
           status == IF got.status # "" THEN got.status
                     ELSE IF ~saved.err.nil THEN "internalerror"
                     ELSE "sync"
       IN /\ certFiles' = IF got.status = "" THEN saved.files ELSE certFiles
          /\ clientCerts' = IF status = "sync"
                            THEN trustPost_Store(clientCerts, tls.ServerName, got.cert)
                            ELSE clientCerts
          /\ posted' = IF status = "sync"
                       THEN [posted EXCEPT ![tls.ServerName] = Append(@, got.cert.Raw)]
                       ELSE posted
          /\ dret' = DRet("trustPost", status, req.Password, {})
    /\ UNCHANGED adminpwd
    /\ UNCHANGED <<opVars, envVars, clientVars, sysVars>>

\* trustGet's body: one entry per pinned certificate.
trustGet_Body(certs) ==
    {[host |-> h, fingerprint |-> GenerateFingerprint(certs[h])] : h \in DOMAIN certs}

trustGet ==
    /\ dret' = DRet("trustGet", "sync", "", trustGet_Body(clientCerts))
    /\ UNCHANGED <<clientCerts, certFiles, adminpwd, posted>>
    /\ UNCHANGED <<opVars, envVars, clientVars, sysVars>>

\* trustFingerprintGet's answers: the first entry the map's iteration meets
\* whose fingerprint matches, whichever order it iterates in, or not-found.
NotFound == [status |-> "notfound", body |-> {}]

trustFingerprintGet_Answers(certs, fingerprint) ==
    LET matching == {h \in DOMAIN certs : fingerprint = GenerateFingerprint(certs[h])}
    IN IF matching = {} THEN {NotFound}
       ELSE {[status |-> "sync",
              body |-> {[type |-> "client",
                         certificate |-> EncodeToString(certs[h].Raw)]}] :
                h \in matching}

Fingerprints ==
    {GenerateFingerprint(Certificate(raw)) : raw \in DER} \cup {<<"fingerprint", <<"none">>>>}

trustFingerprintGet(fingerprint) ==
    /\ \E answer \in trustFingerprintGet_Answers(clientCerts, fingerprint) :
           dret' = DRet("trustFingerprintGet", answer.status, "", answer.body)
    /\ UNCHANGED <<clientCerts, certFiles, adminpwd, posted>>
    /\ UNCHANGED <<opVars, envVars, clientVars, sysVars>>

TrustReqs == [Type : {"client"}, Certificate : CertificateTexts, Password : Passwords]

---------------------------------------------------------------------------
(* Daemon: the task that runs an Operation, and its waiter *)

\* The task: at "none" (no Operation yet), "pending" (the Operation is
\* created), "running" (the unit of work is executing), "returned" (it has
\* returned err), "committed" (the terminal status is written), "released"
\* (the completion signal is sent). cancelled: a cancel request was honoured.
NoTask == [pc |-> "none", err |-> Nil, cancelled |-> FALSE]

\* Chan, a channel with one slot: the values in it, and all ever sent to it.
NoChan == [buf |-> 0, sent |-> 0]

\* The client: at "idle", "created" (Create returned the envelope),
\* "waiting" (WaitFor has posted its request), "returned" (WaitFor has
\* returned op or err) or "failed" (Create returned an error).
NoWaiter == [pc |-> "idle", hasOp |-> FALSE, op |-> NoOperation, err |-> Nil]

\* The envelopes the daemon answers with.
AsyncBody(ref) ==
    [kind |-> "object", typed |-> TRUE, type |-> Present(Async), result |-> Absent(""),
     operation |-> Present(ref), error_code |-> Absent(0), error |-> Absent(<<>>),
     metadata |-> Absent("")]

ErrorBody(msg) ==
    [kind |-> "object", typed |-> TRUE, type |-> Present(Error), result |-> Absent(""),
     operation |-> Absent(""), error_code |-> Present(400), error |-> Present(msg),
     metadata |-> Absent("")]

SyncBody(meta) ==
    [kind |-> "object", typed |-> TRUE, type |-> Present(Sync), result |-> Present(Success),
     operation |-> Absent(""), error_code |-> Absent(0), error |-> Absent(<<>>),
     metadata |-> Present(meta)]

\* An Operation as the client decodes it from the daemon's JSON: a nil
\* Metadata is sent as null.
OperationJson(op) == [op EXCEPT !.Metadata = IF @ = NoMetadata THEN JsonNull ELSE @]

\* POST containers: the daemon refuses the request with an Error envelope,
\* or accepts it, creates the Operation in Pending and answers with an Async
\* envelope that names it; the client's Create returns.
CreateThenWait_Create(conn, b, mayCancel) ==
    /\ waiter.pc = "idle"
    /\ c.live
    /\ LET r == post(c, conn, b)
           accepted == conn # Refused /\ b.type = Present(Async)
       IN /\ waiter' = [waiter EXCEPT !.pc = IF Create_Err(r).nil THEN "created"
                                             ELSE "failed",
                                      !.err = Create_Err(r)]
          /\ o' = IF accepted THEN NewOperation(mayCancel, now) ELSE o
          /\ task' = IF accepted THEN [task EXCEPT !.pc = "pending"] ELSE task
    /\ UNCHANGED <<last, now, nSetResult, resErr, chan, reqs>>
    /\ UNCHANGED <<envVars, clientVars, daemonVars>>

\* The daemon starts the unit of work.
Task_Start ==
    /\ task.pc = "pending"
    /\ o.Status = Pending
    /\ o' = SetStatus_Op(o, Running, now)
    /\ task' = [task EXCEPT !.pc = "running"]
    /\ UNCHANGED <<last, now, nSetResult, resErr, chan, waiter, reqs>>
    /\ UNCHANGED <<envVars, clientVars, daemonVars>>

\* The unit of work returns.
Task_RunReturns(err) ==
    /\ task.pc = "running"
    /\ task' = [task EXCEPT !.pc = "returned", !.err = err]
    /\ UNCHANGED <<opVars, chan, waiter, reqs>>
    /\ UNCHANGED <<envVars, clientVars, daemonVars>>

\* The terminal status is written: Done with the result of the unit of
\* work, or Cancelled when a cancel request was honoured before.
Task_Commit ==
    /\ \/ task.pc = "returned"
       \/ task.pc = "pending" /\ o.Status = Cancelling
    /\ o' = IF o.Status = Cancelling
            THEN SetStatus_Op(o, Cancelled, now)
            ELSE SetResult_Op(SetStatus_Op(o, Done, now), task.err, now)
    /\ task' = [task EXCEPT !.pc = "committed"]
    /\ UNCHANGED <<last, now, nSetResult, resErr, chan, waiter, reqs>>
    /\ UNCHANGED <<envVars, clientVars, daemonVars>>

\* The completion signal as it would be if it were also sent as soon as the
\* unit of work has returned, before the status is written.
Task_Release_Early ==
    /\ task.pc \in {"returned", "committed"}
    /\ chan.buf = 0
    /\ chan.sent < 2
    /\ chan' = [buf |-> 1, sent |-> chan.sent + 1]
    /\ task' = [task EXCEPT !.pc = IF @ = "committed" THEN "released" ELSE @]
    /\ UNCHANGED <<opVars, waiter, reqs>>
    /\ UNCHANGED <<envVars, clientVars, daemonVars>>

\* The completion signal is sent.
Task_Release ==
    /\ task.pc = "committed"
    /\ chan.buf = 0
    /\ chan' = [buf |-> 1, sent |-> chan.sent + 1]
    /\ task' = [task EXCEPT !.pc = "released"]
    /\ UNCHANGED <<opVars, waiter, reqs>>
    /\ UNCHANGED <<envVars, clientVars, daemonVars>>

\* A cancel request: honoured while MayCancel is true and the Operation has
\* not reached a terminal status, rejected otherwise.
Cancel_Request ==
    /\ task.pc \in {"pending", "running", "returned"}
    /\ o.MayCancel
    /\ o.Status \in {Pending, Running}
    /\ o' = SetStatus_Op(o, Cancelling, now)
    /\ task' = [task EXCEPT !.cancelled = TRUE]
    /\ UNCHANGED <<last, now, nSetResult, resErr, chan, waiter, reqs>>
    /\ UNCHANGED <<envVars, clientVars, daemonVars>>

\* WaitFor posts its request.
CreateThenWait_Wait(conn) ==
    /\ waiter.pc = "created"
    /\ waiter' = IF conn = Refused
                 THEN [waiter EXCEPT !.pc = "returned",
                                     !.err = send(c, conn, Garbage).err]
                 ELSE [waiter EXCEPT !.pc = "waiting"]
    /\ UNCHANGED <<opVars, task, chan, reqs>>
    /\ UNCHANGED <<envVars, clientVars, daemonVars>>

\* The daemon's wait handler receives the completion signal and answers
\* with the Operation; WaitFor decodes the answer and returns.
CreateThenWait_Answer ==
    /\ waiter.pc = "waiting"
    /\ chan.buf = 1
    /\ chan' = [chan EXCEPT !.buf = 0]
    /\ LET w == WaitFor_Ret(send(c, "certA", SyncBody(MetaOperation)), OperationJson(o))
       IN waiter' = [pc |-> "returned", hasOp |-> w.hasOp, op |-> w.op, err |-> w.err]
    /\ UNCHANGED <<opVars, task, reqs>>
    /\ UNCHANGED <<envVars, clientVars, daemonVars>>

\* Time passes while the protocol runs.
Run_Tick ==
    /\ now < MaxTime
    /\ now' = now + 1
    /\ UNCHANGED <<o, last, nSetResult, resErr, sysVars>>
    /\ UNCHANGED <<envVars, clientVars, daemonVars>>
---------------------------------------------------------------------------
(* Daemon: trust requests handled concurrently *)

\* net/http runs the handler of each request in a goroutine of its own;
\* ReqIds names the goroutines. A handler is at "idle" (no request), at
\* "store" (trustPost, before line 115), at "storing" (inside the write of
\* the map entry), at "range" (between two entries of the loop over the
\* map) or at "reading" (inside the read of an entry).
ReqIds == 1..MaxReqs

Idle ==
    [fn |-> "", pc |-> "idle", host |-> "", cert |-> NilCert, fingerprint |-> <<>>,
     visited |-> {}, seen |-> {}, found |-> NilCert, fault |-> FALSE]

NoReqs == [i \in ReqIds |-> Idle]

\* The trust POSTs that arrive while others are being handled: from either
\* host, over TLS with certA as the peer certificate, with certB or
\* no certificate in the body.
ConcurrentReqs ==
    {r \in TrustReqs : /\ r.Password = "secret"
                       /\ r.Certificate \in {<<>>, EncodeToString("certB")}}
ConcurrentTLS == {t \in TLSStates : t.tls /\ t.PeerCertificates = <<"certA">>}

\* trustPost up to and including saveCert (lines 87-113); a request that
\* fails before line 115 is answered at once.
trustPost_Begin(i, readOk, req, tls, fs) ==
    /\ reqs[i].pc = "idle"
    /\ LET got == trustPost_Cert(readOk, req, tls)
           saved == saveCert(certFiles, tls.ServerName, got.cert, fs)
       IN /\ certFiles' = IF got.status = "" THEN saved.files ELSE certFiles
          /\ reqs' = IF got.status = "" /\ saved.err.nil
                     THEN [reqs EXCEPT ![i] = [Idle EXCEPT !.fn = "trustPost", !.pc = "store",
                                                           !.host = tls.ServerName,
                                                           !.cert = got.cert]]
                     ELSE reqs
    /\ UNCHANGED <<clientCerts, adminpwd, dret, posted>>
    /\ UNCHANGED <<opVars, envVars, clientVars, task, chan, waiter>>

\* d.clientCerts[r.TLS.ServerName] = *cert starts ...
trustPost_StoreBegin(i) ==
    /\ reqs[i].pc = "store"
    /\ reqs' = [reqs EXCEPT ![i].pc = "storing"]
    /\ UNCHANGED daemonVars
    /\ UNCHANGED <<opVars, envVars, clientVars, task, chan, waiter>>

\* ... and ends; the handler answers EmptySyncResponse.
trustPost_StoreEnd(i) ==
    /\ reqs[i].pc = "storing"
    /\ clientCerts' = trustPost_Store(clientCerts, reqs[i].host, reqs[i].cert)
    /\ reqs' = [reqs EXCEPT ![i] = Idle]
    /\ UNCHANGED <<certFiles, adminpwd, dret, posted>>
    /\ UNCHANGED <<opVars, envVars, clientVars, task, chan, waiter>>

trustGet_Begin(i) ==
    /\ reqs[i].pc = "idle"
    /\ reqs' = [reqs EXCEPT ![i] = [Idle EXCEPT !.fn = "trustGet", !.pc = "range"]]
    /\ UNCHANGED daemonVars
    /\ UNCHANGED <<opVars, envVars, clientVars, task, chan, waiter>>

trustFingerprintGet_Begin(i, fingerprint) ==
    /\ reqs[i].pc = "idle"
    /\ reqs' = [reqs EXCEPT ![i] = [Idle EXCEPT !.fn = "trustFingerprintGet",
                                                !.pc = "range",
                                                !.fingerprint = fingerprint]]
    /\ UNCHANGED daemonVars
    /\ UNCHANGED <<opVars, envVars, clientVars, task, chan, waiter>>

\* for host, cert := range d.clientCerts: the read of the next entry starts.
Range_ReadBegin(i, h) ==
    /\ reqs[i].pc = "range"
    /\ reqs[i].found.nil
    /\ h \in DOMAIN clientCerts \ reqs[i].visited
    /\ reqs' = [reqs EXCEPT ![i].pc = "reading", ![i].host = h]
    /\ UNCHANGED daemonVars
    /\ UNCHANGED <<opVars, envVars, clientVars, task, chan, waiter>>

\* The certificates a read of h's entry can copy out: the entry, or, while a
\* write of the same entry is under way, also the one being written.
Range_Values(h) ==
    {clientCerts[h]}
        \cup {reqs[j].cert : j \in {k \in ReqIds : reqs[k].pc = "storing" /\ reqs[k].host = h}}

\* The read of the entry ends: with a certificate, or, when a write of the
\* map overlaps it, with the runtime's fault for a concurrent map access.
Range_ReadEnd(i, cert, fault) ==
    /\ reqs[i].pc = "reading"
    /\ cert \in Range_Values(reqs[i].host)
    /\ fault => \E j \in ReqIds : reqs[j].pc = "storing"
    /\ reqs' = [reqs EXCEPT
                   ![i].pc = "range",
                   ![i].visited = @ \cup {reqs[i].host},
                   ![i].fault = fault,
                   ![i].seen = IF reqs[i].fn = "trustGet" /\ ~fault
                               THEN @ \cup {[host |-> reqs[i].host,
                                             fingerprint |-> GenerateFingerprint(cert)]}
                               ELSE @,
                   ![i].found = IF /\ reqs[i].fn = "trustFingerprintGet"
                                   /\ ~fault
                                   /\ reqs[i].fingerprint = GenerateFingerprint(cert)
                                THEN cert ELSE @]
    /\ UNCHANGED daemonVars
    /\ UNCHANGED <<opVars, envVars, clientVars, task, chan, waiter>>

\* The loop is over and the handler answers on its own connection: with
\* seen (trustGet), with found or NotFound (trustFingerprintGet).
Range_End(i) ==
    /\ reqs[i].pc = "range"
    /\ \/ reqs[i].fault
       \/ ~reqs[i].found.nil
       \/ DOMAIN clientCerts \subseteq reqs[i].visited
    /\ reqs' = [reqs EXCEPT ![i] = Idle]
    /\ UNCHANGED daemonVars
    /\ UNCHANGED <<opVars, envVars, clientVars, task, chan, waiter>>

---------------------------------------------------------------------------
(* Specifications: each runs one part of the system from its initial state *)
(* and holds the other parts at theirs.                                    *)

\* An Operation as the daemon creates it, with or without a cancel hook.
InitOp ==
    /\ now = 0
    /\ o \in {NewOperation(mayCancel, 0) : mayCancel \in BOOLEAN}
    /\ last = [op |-> "", status |-> Pending, err |-> Nil]
    /\ nSetResult = 0
    /\ resErr = Nil
    /\ body = Garbage
    /\ env = NotParsed
    /\ perr = Nil
    /\ phase = "raw"
    /\ disk = NoFile
    /\ c = NoClient
    /\ ret = NoRet
    /\ clientCerts = << >>
    /\ certFiles = [h \in Hosts |-> NoFile]
    /\ adminpwd = NoPwd
    /\ dret = DRet("", "", "", {})
    /\ posted = [h \in Hosts |-> <<>>]
    /\ task = NoTask
    /\ chan = NoChan
    /\ waiter = NoWaiter
    /\ reqs = NoReqs

\* A response body has arrived.
InitEnv ==
    /\ now = 0
    /\ o = NewOperation(FALSE, 0)
    /\ last = [op |-> "", status |-> Pending, err |-> Nil]
    /\ nSetResult = 0
    /\ resErr = Nil
    /\ body \in RawBodies
    /\ env = NotParsed
    /\ perr = Nil
    /\ phase = "raw"
    /\ disk = NoFile
    /\ c = NoClient
    /\ ret = NoRet
    /\ clientCerts = << >>
    /\ certFiles = [h \in Hosts |-> NoFile]
    /\ adminpwd = NoPwd
    /\ dret = DRet("", "", "", {})
    /\ posted = [h \in Hosts |-> <<>>]
    /\ task = NoTask
    /\ chan = NoChan
    /\ waiter = NoWaiter
    /\ reqs = NoReqs

\* No certificate is pinned and no Client has been constructed.
InitClient ==
    /\ now = 0
    /\ o = NewOperation(FALSE, 0)
    /\ last = [op |-> "", status |-> Pending, err |-> Nil]
    /\ nSetResult = 0
    /\ resErr = Nil
    /\ body = Garbage
    /\ env = NotParsed
    /\ perr = Nil
    /\ phase = "raw"
    /\ disk = NoFile
    /\ c = NoClient
    /\ ret = NoRet
    /\ clientCerts = << >>
    /\ certFiles = [h \in Hosts |-> NoFile]
    /\ adminpwd = NoPwd
    /\ dret = DRet("", "", "", {})
    /\ posted = [h \in Hosts |-> <<>>]
    /\ task = NoTask
    /\ chan = NoChan
    /\ waiter = NoWaiter
    /\ reqs = NoReqs

\* The daemon has started with no client certificate pinned, with or
\* without a trust password.
InitDaemon ==
    /\ now = 0
    /\ o = NewOperation(FALSE, 0)
    /\ last = [op |-> "", status |-> Pending, err |-> Nil]
    /\ nSetResult = 0
    /\ resErr = Nil
    /\ body = Garbage
    /\ env = NotParsed
    /\ perr = Nil
    /\ phase = "raw"
    /\ disk = NoFile
    /\ c = NoClient
    /\ ret = NoRet
    /\ clientCerts = << >>
    /\ certFiles = [h \in Hosts |-> NoFile]
    /\ adminpwd \in {NoPwd, PwdFile("secret")}
    /\ dret = DRet("", "", "", {})
    /\ posted = [h \in Hosts |-> <<>>]
    /\ task = NoTask
    /\ chan = NoChan
    /\ waiter = NoWaiter
    /\ reqs = NoReqs

\* A Client connected to the daemon on its local socket.
InitWait ==
    /\ now = 0
    /\ o = NewOperation(FALSE, 0)
    /\ last = [op |-> "", status |-> Pending, err |-> Nil]
    /\ nSetResult = 0
    /\ resErr = Nil
    /\ body = Garbage
    /\ env = NotParsed
    /\ perr = Nil
    /\ phase = "raw"
    /\ disk = NoFile
    /\ c = [NoClient EXCEPT !.live = TRUE]
    /\ ret = NoRet
    /\ clientCerts = << >>
    /\ certFiles = [h \in Hosts |-> NoFile]
    /\ adminpwd = NoPwd
    /\ dret = DRet("", "", "", {})
    /\ posted = [h \in Hosts |-> <<>>]
    /\ task = NoTask
    /\ chan = NoChan
    /\ waiter = NoWaiter
    /\ reqs = NoReqs

\* The daemon has started with no client certificate pinned and no request
\* in flight.
InitTrust ==
    /\ now = 0
    /\ o = NewOperation(FALSE, 0)
    /\ last = [op |-> "", status |-> Pending, err |-> Nil]
    /\ nSetResult = 0
    /\ resErr = Nil
    /\ body = Garbage
    /\ env = NotParsed
    /\ perr = Nil
    /\ phase = "raw"
    /\ disk = NoFile
    /\ c = NoClient
    /\ ret = NoRet
    /\ clientCerts = << >>
    /\ certFiles = [h \in Hosts |-> NoFile]
    /\ adminpwd = NoPwd
    /\ dret = DRet("", "", "", {})
    /\ posted = [h \in Hosts |-> <<>>]
    /\ task = NoTask
    /\ chan = NoChan
    /\ waiter = NoWaiter
    /\ reqs = NoReqs

\* A Client connected to the daemon on its local socket; no Operation yet.
InitRun ==
    /\ now = 0
    /\ o = NoOperation
    /\ last = [op |-> "", status |-> Pending, err |-> Nil]
    /\ nSetResult = 0
    /\ resErr = Nil
    /\ body = Garbage
    /\ env = NotParsed
    /\ perr = Nil
    /\ phase = "raw"
    /\ disk = NoFile
    /\ c = [NoClient EXCEPT !.live = TRUE]
    /\ ret = NoRet
    /\ clientCerts = << >>
    /\ certFiles = [h \in Hosts |-> NoFile]
    /\ adminpwd = NoPwd
    /\ dret = DRet("", "", "", {})
    /\ posted = [h \in Hosts |-> <<>>]
    /\ task = NoTask
    /\ chan = NoChan
    /\ waiter = NoWaiter
    /\ reqs = NoReqs

NextOp ==
    \/ \E status \in OperationStatus : SetStatus(status)
    \/ \E err \in RunErrors : SetResult(err)
    \/ Tick
    \/ GetError

NextEnv ==
    \/ DoParseResponse
    \/ DoParseError

NextClient ==
    \/ \E keypair \in BOOLEAN :
       \E remote \in IF keypair THEN {"unix", "known", "unknown"} ELSE {"unknown"} :
       \E fs \in IF remote = "known" /\ disk.exists THEN FsLoad ELSE {"ok"} :
       \E conn \in IF remote = "unknown" THEN {Refused} ELSE ConnsIf(remote = "known") :
       \E b \in BodiesIf(conn # Refused) : NewClient(keypair, remote, fs, conn, b)
    \/ \E conn \in ConnsIf(c.tls) : \E b \in BodiesIf(conn # Refused) :
          ListContainers(conn, b)
    \/ \E conn \in ConnsIf(c.tls) : \E b \in BodiesIf(conn # Refused) :
          ContainerStatus(conn, b)
    \/ \E conn \in ConnsIf(c.tls) : \E b \in EnvelopesIf(conn # Refused) : Create(conn, b)
    \/ \E conn \in ConnsIf(c.tls) : \E b \in EnvelopesIf(conn # Refused) : Action(conn, b)
    \/ \E conn \in ConnsIf(c.tls) : \E b \in EnvelopesIf(conn # Refused) : Delete(conn, b)
    \/ \E conn \in ConnsIf(c.tls) : \E b \in EnvelopesIf(conn # Refused) : Snapshot(conn, b)
    \/ \E conn \in ConnsIf(c.tls) : \E b \in EnvelopesIf(conn # Refused) : PushFile(conn, b)
    \/ \E conn \in ConnsIf(c.tls) :
       \E status \in IF conn # Refused THEN {200, 404} ELSE {200} :
       \E headersOk \in IF conn # Refused /\ status = 200 THEN BOOLEAN ELSE {TRUE} :
       \E b \in EnvelopesIf(conn # Refused /\ status # 200) :
          PullFile(conn, status, headersOk, b)
    \/ \E conn \in ConnsIf(c.tls) : \E b \in BodiesIf(conn # Refused) : WaitFor(conn, b)
    \/ \E readOk \in BOOLEAN :
       \E line \in IF readOk THEN Lines ELSE {<<>>} :
       \E fs \in IF readOk /\ line # <<>> /\ line[1] \in {"y", "Y"} THEN FsStore ELSE {"ok"} :
          UserAuthServerCert(readOk, line, fs)

NextDaemon ==
    \/ \E readOk \in BOOLEAN :
       \E req \in IF readOk THEN TrustReqs ELSE {NoReq} :
       \E tls \in TLSStates :
       \E fs \in IF trustPost_Cert(readOk, req, tls).status = "" THEN FsSave ELSE {"ok"} :
          trustPost(readOk, req, tls, fs)
    \/ trustGet
    \/ \E fingerprint \in Fingerprints : trustFingerprintGet(fingerprint)

NextWait ==
    \E conn \in ConnsIf(c.tls) : \E b \in BodiesIf(conn # Refused) :
    \E payload \in IF b.metadata = Present(MetaOperation) /\ b.type # Present(Error)
                    THEN WireOps ELSE {NoOperation} :
       WaitForSuccess(conn, b, payload)

NextTrust ==
    \/ \E i \in ReqIds : \E readOk \in BOOLEAN :
       \E req \in IF readOk THEN ConcurrentReqs ELSE {NoReq} :
       \E tls \in ConcurrentTLS :
          trustPost_Begin(i, readOk, req, tls, "ok")
    \/ \E i \in ReqIds : trustPost_StoreBegin(i)
    \/ \E i \in ReqIds : trustPost_StoreEnd(i)
    \/ \E i \in ReqIds : trustGet_Begin(i)
    \/ \E i \in ReqIds : \E fingerprint \in Fingerprints :
          trustFingerprintGet_Begin(i, fingerprint)
    \/ \E i \in ReqIds : \E h \in Hosts : Range_ReadBegin(i, h)
    \/ \E i \in ReqIds : \E cert \in {Certificate(raw) : raw \in DER} :
       \E fault \in BOOLEAN : Range_ReadEnd(i, cert, fault)
    \/ \E i \in ReqIds : Range_End(i)

NextRun ==
    \/ \E conn \in ConnsIf(c.tls) :
       \E b \in IF conn = Refused THEN {Garbage}
                 ELSE {AsyncBody(OperationRef), SyncBody(MetaOther)}
                          \cup {ErrorBody(m) : m \in ClientMsgs} :
       \E mayCancel \in IF conn # Refused /\ b.type = Present(Async)
                         THEN BOOLEAN ELSE {FALSE} :
          CreateThenWait_Create(conn, b, mayCancel)
    \/ Task_Start
    \/ \E err \in RunErrors : Task_RunReturns(err)
    \/ Task_Commit
    \/ Task_Release
    \/ Cancel_Request
    \/ \E conn \in ConnsIf(c.tls) : CreateThenWait_Wait(conn)
    \/ CreateThenWait_Answer
    \/ Run_Tick

\* The daemon's goroutines and the client keep running, and the unit of
\* work returns.
FairRun ==
    /\ WF_vars(Task_Start)
    /\ WF_vars(\E err \in RunErrors : Task_RunReturns(err))
    /\ WF_vars(Task_Commit)
    /\ WF_vars(Task_Release)
    /\ WF_vars(CreateThenWait_Answer)

SpecOp == InitOp /\ [][NextOp]_vars
SpecEnv == InitEnv /\ [][NextEnv]_vars
SpecClient == InitClient /\ [][NextClient]_vars
SpecDaemon == InitDaemon /\ [][NextDaemon]_vars
SpecWait == InitWait /\ [][NextWait]_vars
SpecTrust == InitTrust /\ [][NextTrust]_vars
SpecRun == InitRun /\ [][NextRun]_vars /\ FairRun

---------------------------------------------------------------------------
(* Properties *)

Terminal == {Done, Cancelling, Cancelled}

\* The order of the lifecycle: Pending < Running < {Done, Cancelling},
\* Cancelling < Cancelled.
StatusLeq(a, b) ==
    \/ a = b
    \/ a = Pending
    \/ a = Running /\ b \in {Done, Cancelling, Cancelled}
    \/ a = Cancelling /\ b = Cancelled

\* C1: over any sequence of SetStatus and SetResult calls the status never
\* goes down in the lifecycle's order; in particular nothing leaves Done or
\* Cancelled.
C1_StatusNeverRegresses == [][StatusLeq(o.Status, o'.Status)]_vars

\* C2, as claimed: SetResult is called at most once, and right after a call
\* of SetResult the status is Done and MayCancel is false.
C2_SetResultCompletes ==
    /\ nSetResult <= 1
    /\ last.op = "SetResult" => (o.Status = Done /\ ~o.MayCancel)

\* C2, as amended: every call of SetResult, the first or a later one, sets
\* the result to Success or Failure and leaves the status and MayCancel as
\* they were before the call.
C2_SetResultKeepsStatus ==
    [][nSetResult' # nSetResult =>
          /\ o'.Status = o.Status
          /\ o'.MayCancel = o.MayCancel
          /\ o'.Result \in {Success, Failure}]_vars

\* C2's case: SetResult called a second time on a running, cancellable
\* operation.
C2_Witness ==
    /\ last.op = "SetResult"
    /\ nSetResult = 2
    /\ o.Status = Running
    /\ o.MayCancel
    /\ o.Result = Failure

CertificateChanged == ErrLit("Server certificate has changed")

\* C3: whichever request produced it, a response from a TLS daemon has its
\* peer certificate compared with the pinned one before the body is decoded,
\* and a different certificate ends the call with an error and no decoding.
C3_PinCheckedOnEveryVerb ==
    (ret.verb # "" /\ ret.tls /\ ~ret.pinned.nil /\ ret.conn \in DER) =>
        /\ ret.compared
        /\ ret.conn # ret.pinned.Raw => (~ret.decoded /\ ret.err = CertificateChanged)

\* The certificate UserAuthServerCert has persisted for the remote.
Pinned(file) == file.exists /\ file.blocks # <<>>

\* C4: once a certificate is pinned for the remote, every later connection,
\* through the same Client or a new one, passes the check when the daemon
\* presents that certificate and fails with "Server certificate has changed"
\* when it presents another.
C4_PinnedCertEnforced ==
    (ret.verb # "" /\ ret.tls /\ ret.conn \in DER /\ Pinned(disk)) =>
        (ret.err = CertificateChanged <=> ret.conn # Head(disk.blocks).Bytes)

\* C5: a trust POST with a wrong password fails and leaves the pinned client
\* certificates as they were.
C5_WrongPasswordRejected ==
    [][(/\ dret'.fn = "trustPost"
        /\ hasPwd(adminpwd)
        /\ ~verifyAdminPwd(adminpwd, TRUE, dret'.password)) =>
          (dret'.status # "sync" /\ clientCerts' = clientCerts)]_vars

\* C6: UserAuthServerCert persists a certificate only after an answer that
\* starts with y or Y; any other answer, and a call with no certificate
\* captured, persists nothing and returns an error.
Affirmative(r) ==
    r.out = "asked" /\ r.answer # <<>> /\ r.answer[1] \in {"y", "Y"}

C6_OnlyApprovalPersists ==
    [][ret'.fn = "UserAuthServerCert" =>
          /\ disk' # disk => Affirmative(ret')
          /\ ~Affirmative(ret') => (disk' = disk /\ ~ret'.err.nil /\ ~ret'.panic)]_vars

\* The members a body populates agree with its kind.
KindAgrees(b) ==
    /\ b.type.set
    /\ b.type.v \in {Sync, Async, Error}
    /\ b.result.set => b.type.v = Sync
    /\ b.operation.set => b.type.v = Async
    /\ (b.error_code.set \/ b.error.set) => b.type.v = Error

\* C7: ParseResponse yields an envelope only for a body whose populated
\* members agree with its kind, and fails for every other body.
C7_MalformedEnvelopeRejected ==
    phase # "raw" => (env.err.nil <=> (body.kind = "object" /\ body.typed /\ KindAgrees(body)))

\* C8: ParseError is nil for a Sync or Async envelope, and for an Error
\* envelope an error whose message is the envelope's error text.
C8_ParseErrorCarriesMessage ==
    phase = "inspected" =>
        /\ env.resp.Type \in {Sync, Async} => perr.nil
        /\ env.resp.Type = Error => (~perr.nil /\ perr.text = env.resp.Error)

\* C9: Create, Action, Delete and Snapshot fail on an envelope that is not
\* Async, ListContainers and ContainerStatus on one that is not Sync.
C9_UnexpectedKindFails ==
    /\ (ret.fn \in {"Create", "Action", "Delete", "Snapshot"} /\ ret.type # Async)
           => ~ret.err.nil
    /\ (ret.fn \in {"ListContainers", "ContainerStatus"} /\ ret.type # Sync)
           => ~ret.err.nil

\* C10: after trust POSTs from distinct hosts, GET /trust lists the
\* fingerprint of each certificate posted, GET /trust/{fingerprint} answers
\* with that certificate for its fingerprint, and with not-found for a
\* fingerprint that no pinned certificate has.
DistinctHosts == \A h \in Hosts : Len(posted[h]) <= 1

C10_TrustListsPostedCerts ==
    DistinctHosts =>
        /\ \A h \in Hosts :
              posted[h] # <<>> =>
                  LET fp == GenerateFingerprint(Certificate(posted[h][1]))
                  IN /\ \E e \in trustGet_Body(clientCerts) : e.fingerprint = fp
                     /\ \A a \in trustFingerprintGet_Answers(clientCerts, fp) :
                           /\ a.status = "sync"
                           /\ \A b \in a.body :
                                 DecodeString(b.certificate).bytes = posted[h][1]
                           /\ a.body # {}
        /\ \A fp \in Fingerprints :
              (\A h \in DOMAIN clientCerts : GenerateFingerprint(clientCerts[h]) # fp)
                  => trustFingerprintGet_Answers(clientCerts, fp) = {NotFound}
        /\ (dret.fn = "trustFingerprintGet" /\ dret.status = "sync") =>
              \E h \in Hosts :
                  /\ posted[h] # <<>>
                  /\ \A b \in dret.body : DecodeString(b.certificate).bytes = posted[h][1]

\* C10's case: two hosts have pinned different certificates and one of them
\* has been looked up by its fingerprint.
C10_Witness ==
    /\ DistinctHosts
    /\ posted["h1"] # <<>>
    /\ posted["h2"] # <<>>
    /\ posted["h1"] # posted["h2"]
    /\ dret.fn = "trustFingerprintGet"
    /\ dret.status = "sync"

\* C14: SetStatus(s) sets the status to s and the status code to s's code
\* (0..4 in the order Pending, Running, Done, Cancelling, Cancelled), clears
\* MayCancel for Done, Cancelling and Cancelled and keeps it otherwise, and
\* leaves Result, ResultCode, Metadata and ResourceURL as they were.
C14_SetStatusEffect ==
    [][last'.op = "SetStatus" =>
          /\ o'.Status = last'.status
          /\ o'.StatusCode =
                 (CASE last'.status = Pending -> 0
                    [] last'.status = Running -> 1
                    [] last'.status = Done -> 2
                    [] last'.status = Cancelling -> 3
                    [] last'.status = Cancelled -> 4)
          /\ o'.MayCancel = (IF last'.status \in Terminal THEN FALSE ELSE o.MayCancel)
          /\ o'.Result = o.Result
          /\ o'.ResultCode = o.ResultCode
          /\ o'.Metadata = o.Metadata
          /\ o'.ResourceURL = o.ResourceURL]_vars

\* C14's case: SetStatus(Cancelling) on an operation that already holds a
\* failure's result and metadata.
C14_Witness ==
    /\ last.op = "SetStatus"
    /\ last.status = Cancelling
    /\ o.Status = Cancelling
    /\ o.StatusCode = 3
    /\ o.Result = Failure
    /\ o.Metadata # NoMetadata

\* C15: after any SetStatus or SetResult call MayCancel is false whenever the
\* status is Done, Cancelling or Cancelled, and no call makes a false
\* MayCancel true again.
C15_MayCancelStaysCleared ==
    [][/\ o'.Status \in Terminal => ~o'.MayCancel
       /\ ~o.MayCancel => ~o'.MayCancel]_vars

\* C15's case: after a result was set, SetStatus has taken the operation to
\* Cancelling at a later time, and MayCancel is false.
C15_Witness ==
    /\ last.op = "SetStatus"
    /\ o.Status = Cancelling
    /\ ~o.MayCancel
    /\ o.UpdatedAt > o.CreatedAt
    /\ nSetResult > 0

\* C16: SetResult(nil) sets Success with code 1 and keeps the metadata;
\* SetResult(err) sets Failure with code 0 and makes the metadata a JSON
\* string that decodes to err's text. SetResult returns nothing, so the
\* error reaches the caller only through the Operation.
C16_SetResultEffect ==
    [][nSetResult' # nSetResult =>
          IF resErr'.nil
          THEN /\ o'.Result = Success
               /\ o'.ResultCode = 1
               /\ o'.Metadata = o.Metadata
          ELSE /\ o'.Result = Failure
               /\ o'.ResultCode = 0
               /\ JsonUnmarshalString(o'.Metadata).err.nil
               /\ JsonUnmarshalString(o'.Metadata).s = resErr'.text]_vars

\* C16's case: SetResult with an error whose text holds a quote, and
\* SetResult(nil) after a failure, which keeps the failure's metadata.
C16_Witness ==
    /\ last.op = "SetResult"
    /\ resErr.nil
    /\ o.Result = Success
    /\ o.Metadata = JsonMarshalString(<<"\"">>)

\* C17: GetError on an Operation whose last SetResult was given the error e
\* returns an error with e's message, and nil on one whose result is Success.
C17_GetErrorRoundTrip ==
    last.op = "GetError" =>
        /\ o.Result = Success => last.err.nil
        /\ (nSetResult > 0 /\ ~resErr.nil) =>
               (~last.err.nil /\ last.err.lit = "" /\ last.err.text = resErr.text)

\* C18: of two SetStatus calls on the Operation, one right after the other,
\* the later one leaves a strictly greater UpdatedAt.
C18_UpdatedAtAdvances ==
    [][(last.op = "SetStatus" /\ last'.op = "SetStatus" /\ now' = now)
           => o'.UpdatedAt > o.UpdatedAt]_vars

\* C19: PullFile answered with a status other than 200 returns an error and
\* no stream, and PullFile never returns a nil error with no stream.
C19_PullFileNeverNilNil ==
    ret.fn = "PullFile" =>
        /\ (ret.conn # Refused /\ ret.status # 200) => (~ret.err.nil /\ ret.out = "")
        /\ ~(ret.err.nil /\ ret.out = "")

\* C20: WaitForSuccess returns nil only for an Operation that is Done with
\* result Success; for one returned with another status, or with result
\* Failure, it returns an error.
C20_SuccessOnlyWhenDone ==
    (ret.fn = "WaitForSuccess" /\ ret.out = "operation") =>
        /\ ret.err.nil => (ret.op.Status = Done /\ ret.op.Result = Success)
        /\ (ret.op.Status \in {Pending, Running, Cancelling, Cancelled}
                \/ ret.op.Result = Failure) => ~ret.err.nil

\* C12: while trust requests are handled concurrently, no read of a host's
\* entry of the map (by trustGet or trustFingerprintGet) is under way at the
\* same time as a write of that entry (by trustPost).
C12_ReadWriteExclusive ==
    \A i, j \in ReqIds :
        ~(/\ reqs[i].pc = "reading"
          /\ reqs[j].pc = "storing"
          /\ reqs[i].host = reqs[j].host)

\* C11: Chan is sent one value in the Operation's lifetime, never more; it
\* is sent only once the terminal status and, for Done, the result are
\* written, and the waiter that receives it gets the Operation as it finally
\* is.
C11_SignalAfterCommit ==
    /\ chan.sent <= 1
    /\ task.pc = "released" => chan.sent = 1
    /\ chan.sent = 1 =>
          /\ o.Status \in {Done, Cancelled}
          /\ o.Status = Done =>
                 o.Result = (IF task.err.nil THEN Success ELSE Failure)
    /\ (waiter.pc = "returned" /\ waiter.hasOp) => waiter.op = OperationJson(o)

\* C11's case: the waiter has received the signal of an operation whose unit
\* of work failed, and holds that operation.
C11_Witness ==
    /\ waiter.pc = "returned"
    /\ waiter.hasOp
    /\ chan = [buf |-> 0, sent |-> 1]
    /\ waiter.op.Status = Done
    /\ waiter.op.Result = Failure

C21_DigestMatchesWire ==
    /\ [](c.scertDigestSet =>
            (~c.scertWire.nil /\ c.scertDigest = Sum256(c.scertWire.Raw)))
    /\ [](~c.scertDigestSet => (c.scertWire.nil /\ c.scertDigest = ZeroDigest))
    /\ []((c.live /\ c.tls) => c.scertDigestSet)
    /\ [][(ret'.fn = "NewClient" /\ c'.live /\ c'.tls) =>
             c'.scertWire = Certificate(ret'.conn)]_vars
    /\ [][(c.live /\ c'.live /\ ret'.fn # "NewClient") =>
             /\ c'.scertWire = c.scertWire
             /\ c'.scertDigest = c.scertDigest
             /\ c'.scertDigestSet = c.scertDigestSet]_vars
    /\ [][(ret'.fn = "UserAuthServerCert" /\ disk' # disk /\ disk'.blocks # <<>>) =>
             Sum256(Head(disk'.blocks).Bytes) = c.scertDigest]_vars

\* C21's case: the operator approved the captured certificate, which is now
\* on disk, and a later TLS response that presented the other certificate
\* was decoded by the same Client without changing what it captured.
C21_Witness ==
    /\ c.live
    /\ c.scertDigestSet
    /\ c.scertDigest = Sum256(c.scertWire.Raw)
    /\ disk = File(PemEncode(c.scertWire.Raw))
    /\ ret.fn = "ListContainers"
    /\ ret.decoded
    /\ ret.conn \in DER
    /\ ret.conn # c.scertWire.Raw

\* C22: a trust POST that fails, because its body cannot be read, its
\* certificate is not base64 or does not parse (bad request), or the
\* certificate cannot be saved to disk (internal error), leaves the daemon's
\* in-memory map of pinned client certificates exactly as it was.
C22_FailedPostKeepsCerts ==
    [][(dret'.fn = "trustPost" /\ dret'.status \in {"badrequest", "internalerror"}) =>
          clientCerts' = clientCerts]_vars

\* C22's case: a POST for a host whose certificate is pinned failed while
\* writing the file, which it left empty, and the map still holds the
\* certificate pinned before.
C22_Witness ==
    /\ dret.fn = "trustPost"
    /\ dret.status = "internalerror"
    /\ \E h \in DOMAIN clientCerts :
          /\ certFiles[h] = File(<<>>)
          /\ posted[h] # <<>>
          /\ clientCerts[h].Raw = posted[h][Len(posted[h])]

====
